---- MODULE Spec2Model ----
(***************************************************************************)
(* Orlando PD active-calls monitor (src/orlando_pd_monitor.py).            *)
(*                                                                         *)
(* The model follows the control flow of main -> monitor_loop ->           *)
(* process_and_notify_matches -> send_notification / send_email_           *)
(* notification, with the NotificationTracker set as the only state that   *)
(* survives a poll cycle.  The outside world (feed contents, the outcome   *)
(* of the feed GET, of each push POST and of each email send, an           *)
(* interrupt) is chosen nondeterministically.                              *)
(***************************************************************************)
EXTENDS Integers, Sequences, FiniteSets, TLC

VARIABLES
    pc,                 \* position of the single thread of control
    poll_interval,      \* Config.poll_interval
    email_enabled,      \* Config.email_enabled
    loop_count,         \* monitor_loop: loop_count
    consecutive_errors, \* monitor_loop: consecutive_errors
    backoff_time,       \* monitor_loop: last wait passed to time.sleep in a handler (0: none yet)
    notified_incidents, \* NotificationTracker.notified_incidents
    matching_calls,     \* monitor_loop: matching_calls of the cycle in progress (<<>> between cycles)
    idx,                \* process_and_notify_matches: position of the for loop
    notifications_sent, \* process_and_notify_matches: notifications_sent
    ntfy_success,       \* process_and_notify_matches: ntfy_success
    email_success,      \* process_and_notify_matches: email_success
    exit_code,          \* main: process exit status (-1 while running)
    summary,            \* main: the count logged as "Total notifications sent" (-1: nothing logged)
    \* ---- observations of the run (not program state) ----
    cur,                \* incident id of the last loop iteration of the process_and_notify_matches call in progress
    post_made,          \* the last iteration made a push POST
    email_invoked,      \* the last iteration called send_email_notification
    caught,             \* the last iteration ended in the except clause of line 573
    push_ok,            \* id -> number of times send_notification returned True
    posted_ok,          \* ids whose push POST completed with a non-error status
    failed_push,        \* ids for which a push attempt has failed
    net_streak,         \* RequestException cycles since the last successful cycle
    gen_streak,         \* other-Exception cycles since the last successful cycle
    fetch_ok_seen,      \* some feed GET has succeeded in this run
    last_error,         \* except clause of monitor_loop that ran last ("none": no failure yet)
    raw_kind,           \* kind of the feed body of the cycle in progress ("none" outside one)
    start_tracker,      \* the tracker as it was when the process_and_notify_matches call in progress began
    resend_called,      \* the last iteration called resend.Emails.send
    interrupted,        \* a KeyboardInterrupt ended the run
    waits,              \* the time.sleep calls that returned since the last feed GET, <<kind, seconds>> each
    email_calls,        \* id -> number of resend.Emails.send calls made for it
    email_failed,       \* ids for which resend.Emails.send raised
    tracker_op,         \* TrackerSpec: the last NotificationTracker call, <<method, argument>>
    tracker_ret,        \* TrackerSpec: what it returned, <<value>> (<<>> for None)
    mark_calls,         \* TrackerSpec: id -> number of mark_as_notified calls
    raw_data,           \* ParseSpec: the text given to parse_active_calls
    active_calls,       \* ParseSpec, FilterSpec: what parse_active_calls returned
    bom_calls,          \* ParseSpec: what it returned for the same text behind one more BOM
    filter_term,        \* FilterSpec: the search_term of the last search_calls_by_location call
    args                \* ConfigSpec: the parsed command line given to Config.__init__

vars == << pc, poll_interval, email_enabled, loop_count, consecutive_errors,
           backoff_time, notified_incidents, matching_calls, idx,
           notifications_sent, ntfy_success, email_success, exit_code,
           cur, post_made, email_invoked, caught, push_ok, posted_ok,
           failed_push, net_streak, gen_streak,
           fetch_ok_seen, last_error, tracker_op, tracker_ret, mark_calls,
           summary, raw_kind, start_tracker, resend_called, interrupted,
           waits, email_calls, email_failed,
           raw_data, active_calls, bom_calls, filter_term, args >>

----------------------------------------------------------------------------
(* Bounds of the model *)

MaxLoops == 6       \* poll cycles started in one run
MaxFeedLen == 2     \* CALL elements in one feed
MaxMarks == 2       \* TrackerSpec: mark_as_notified calls per id
MaxParseLen == 2    \* ParseSpec: CALL elements in one text
MaxLead == 2        \* ParseSpec: byte-order marks and artifacts in front of the body
MaxEmailToLen == 3  \* characters of the --email-to argument
MaxFilterLen == 2   \* FilterSpec: records given to search_calls_by_location
MaxCounted == 2     \* ProgressSpec: cycles that loop_count tells apart

----------------------------------------------------------------------------
(* Program constants *)

DEFAULT_POLL_INTERVAL == 30
max_consecutive_errors == 5
BackoffBase == 30
BackoffCap == 300
GenericBackoff == 60

----------------------------------------------------------------------------
(* Text: a Python str is a sequence of one-character strings *)

Letters == { <<"f", "F">>, <<"o", "O">> }

UpperChar(c) ==
    IF \E p \in Letters : p[1] = c
    THEN (CHOOSE p \in Letters : p[1] = c)[2]
    ELSE c

\* str.upper()
Upper(s) == [i \in 1..Len(s) |-> UpperChar(s[i])]

\* the Python expression  t in s  on strings
Contains(s, t) ==
    \E i \in 0..(Len(s) - Len(t)) : SubSeq(s, i + 1, i + Len(t)) = t

\* str.strip(), on the texts of the model (blank is the one-space character)
RECURSIVE LStrip(_)
LStrip(s) == IF s # <<>> /\ Head(s) = " " THEN LStrip(Tail(s)) ELSE s

RECURSIVE RStrip(_)
RStrip(s) ==
    IF s # <<>> /\ s[Len(s)] = " " THEN RStrip(SubSeq(s, 1, Len(s) - 1)) ELSE s

Strip(s) == RStrip(LStrip(s))

----------------------------------------------------------------------------
(* Config *)

None == <<"None">>      \* an argument that was not given

\* truth value of a str or None
Truthy(x) == x # None /\ x # <<>>

\* str.split(sep): the pieces of s between the occurrences of sep
RECURSIVE Split(_, _)
Split(s, sep) ==
    IF \E i \in 1..Len(s) : s[i] = sep
    THEN LET i == CHOOSE k \in 1..Len(s) :
                    s[k] = sep /\ \A j \in 1..(k - 1) : s[j] # sep
         IN  << SubSeq(s, 1, i - 1) >> \o Split(SubSeq(s, i + 1, Len(s)), sep)
    ELSE << s >>

\* mutant: the blank pieces are kept
Recipients_unfiltered(email_to) ==
    IF Truthy(email_to)
    THEN LET parts == Split(email_to, ",")
         IN  [i \in 1..Len(parts) |-> Strip(parts[i])]
    ELSE <<>>

\* lines 110-113: Config.email_to
Recipients(email_to) ==
    IF Truthy(email_to)
    THEN LET parts == Split(email_to, ",")
         IN  SelectSeq([i \in 1..Len(parts) |-> Strip(parts[i])],
                       LAMBDA r : Truthy(r))
    ELSE <<>>

\* line 115: all([resend_api_key, self.email_to, email_from])
EmailEnabled(a) ==
    /\ Truthy(a.resend_api_key)
    /\ Recipients(a.email_to) # <<>>
    /\ Truthy(a.email_from)

TextsUpTo(S, n) == UNION { [1..k -> S] : k \in 0..n }

\* the command lines of the model: parse_arguments' result
ArgSets ==
    [interval : {DEFAULT_POLL_INTERVAL, -1},
     resend_api_key : {None, <<>>, <<" ">>, <<"k">>},
     email_from : {None, <<>>, <<" ">>, <<"s">>},
     email_to : {None} \cup TextsUpTo({"a", ",", " "}, MaxEmailToLen)]

\* args once Config is built
NoArgs ==
    [interval |-> DEFAULT_POLL_INTERVAL, resend_api_key |-> None,
     email_from |-> None, email_to |-> None]

----------------------------------------------------------------------------
(* NotificationTracker *)

\* NotificationTracker.__init__
TrackerNew == {}

\* mutant: the membership test always answers True
is_already_notified_always(tracker, incident_number) == TRUE

\* mutant: the membership test always answers False
is_already_notified_never(tracker, incident_number) == FALSE

is_already_notified(tracker, incident_number) == incident_number \in tracker

\* mutant: the set is replaced instead of extended
mark_as_notified_replace(tracker, incident_number) == {incident_number}

mark_as_notified(tracker, incident_number) == tracker \cup {incident_number}

get_notification_count(tracker) == Cardinality(tracker)

----------------------------------------------------------------------------
(* The feed and parse_active_calls *)

\* line 283: call_element.get('incident', '') of a CALL without the attribute
NoIncident == ""

Ids == {"A", NoIncident}

Missing == <<"MISSING">>   \* find() returned None: the child element is absent
NoText == <<"NOTEXT">>    \* the child element is present and its .text is None

LocMatch == <<"f", "o">>
LocOther == <<"O", "F">>
SearchArg == <<"F", "o">>   \* --search argument as typed

\* Config.__init__: search_term.upper()
search_term == Upper(SearchArg)

\* elem.text.strip() if elem.text else ''
TextOf(elem) == IF elem = NoText THEN <<>> ELSE Strip(elem)

\* mutant: a child element without text counts as missing
IsComplete_nonempty(e) ==
    \A f \in {"DATE", "DESC", "LOCATION", "DISTRICT"} : e[f] \notin {Missing, NoText}

\* line 289: not all([date_elem is not None, ...])
IsComplete(e) ==
    /\ e.DATE # Missing
    /\ e.DESC # Missing
    /\ e.LOCATION # Missing
    /\ e.DISTRICT # Missing

PoliceCall(e) ==
    [incident_number |-> e.incident,
     datetime_str    |-> TextOf(e.DATE),
     call_type       |-> TextOf(e.DESC),
     location        |-> TextOf(e.LOCATION),
     district        |-> TextOf(e.DISTRICT)]

\* A feed text is raw.lead followed by a body.  raw.lead is what stands in
\* front of the body, a sequence of BOM and Artifact; raw.kind is the body:
\* "blank" (empty or white space only), "malformed" (no well-formed document),
\* "xml" (a CALLS document whose CALL children are raw.calls)
BOM == "U+FEFF"             \* the byte-order mark, one character
Artifact == "artifact"      \* the six characters of the literal of line 272
ArtifactRest == "artifact[3:]"   \* what the slice of line 273 leaves of them

\* mutant: the byte-order mark is left in place
StripBOM_keep(lead) == lead

\* lines 269-270
StripBOM(lead) ==
    IF lead # <<>> /\ Head(lead) = BOM THEN Tail(lead) ELSE lead

\* lines 272-273
StripArtifact(lead) ==
    IF lead # <<>> /\ Head(lead) = Artifact
    THEN <<ArtifactRest>> \o Tail(lead)
    ELSE lead

\* line 262: not raw_data or not raw_data.strip(); U+FEFF is not white space
\* to str.strip
IsBlank(raw) == raw.kind = "blank" /\ raw.lead = <<>>

\* line 276, ET.fromstring: the exception it raises ("none": it returns the
\* root); the XML parser skips one byte-order mark in front of the document
\* and rejects any other character there
ParseException(lead, kind) ==
    IF kind = "xml" /\ lead \in {<<>>, <<BOM>>} THEN "none" ELSE "ParseError"

\* mutant: parse_active_calls has no except clause
ParseCaught_none == {}

\* the except clauses of parse_active_calls (lines 315-320)
ParseCaught == {"ParseError", "Exception"}

\* TRUE when an exception leaves parse_active_calls
ParseEscapes(raw) ==
    /\ ~IsBlank(raw)
    /\ ParseException(StripArtifact(StripBOM(raw.lead)), raw.kind)
         \notin (ParseCaught \cup {"none"})

\* the return value of parse_active_calls
parse_active_calls(raw) ==
    IF IsBlank(raw)
    THEN <<>>
    ELSE IF ParseException(StripArtifact(StripBOM(raw.lead)), raw.kind) # "none"
    THEN <<>>
    ELSE LET kept == SelectSeq(raw.calls, IsComplete)
         IN  [i \in 1..Len(kept) |-> PoliceCall(kept[i])]

\* mutant: the location is compared as it is written
LocationMatches_as_written(call, term) == Contains(call.location, Upper(term))

\* lines 343 and 347: search_upper in call.location.upper()
LocationMatches(call, term) == Contains(Upper(call.location), Upper(term))

search_calls_by_location(calls, term) ==
    IF calls = <<>>
    THEN <<>>
    ELSE SelectSeq(calls, LAMBDA c : LocationMatches(c, term))

Elem(id, loc) ==
    [incident |-> id, DATE |-> <<"1">>, DESC |-> <<"t">>,
     LOCATION |-> loc, DISTRICT |-> <<"G">>]

FeedElems ==
    { Elem(id, loc) : id \in Ids, loc \in {LocMatch, LocOther} }
    \cup { [Elem("A", LocMatch) EXCEPT !.DATE = Missing] }

SeqsUpTo(S, n) == UNION { [1..k -> S] : k \in 0..n }

Feeds ==
    { [kind |-> "xml", lead |-> <<>>, calls |-> cs] :
        cs \in SeqsUpTo(FeedElems, MaxFeedLen) }
    \cup { [kind |-> k, lead |-> <<>>, calls |-> <<>>] : k \in {"blank", "malformed"} }

----------------------------------------------------------------------------
(* The notification channels *)

\* what the push POST does: "ok" is a response with a non-error status,
\* "http" a response that raise_for_status rejects, "timeout" and
\* "connection" the two transport failures, "other" any other Exception
PushOutcomes == {"ok", "timeout", "connection", "http", "other"}

\* what resend.Emails.send does
EmailOutcomes == {"ok", "error"}

\* mutant: the final `except Exception` clause is missing
PushCaught_no_generic == {"timeout", "connection", "http"}

\* the except clauses of send_notification (lines 403-414): the exception
\* classes it turns into a False return
PushCaught == {"timeout", "connection", "http", "other"}

\* mutant: a failed push marks the incident too
send_notification_marks_failure(call, tracker, outcome) ==
    IF is_already_notified(tracker, call.incident_number)
    THEN [ret |-> FALSE, raised |-> FALSE, tracker |-> tracker,
          posted |-> FALSE, post_ok |-> FALSE]
    ELSE [ret |-> outcome = "ok", raised |-> FALSE,
          tracker |-> mark_as_notified(tracker, call.incident_number),
          posted |-> TRUE, post_ok |-> outcome = "ok"]

\* mutant: the duplicate test of line 369 is missing
send_notification_no_duplicate_test(call, tracker, outcome) ==
    IF outcome = "ok"
    THEN [ret |-> TRUE, raised |-> FALSE,
          tracker |-> mark_as_notified(tracker, call.incident_number),
          posted |-> TRUE, post_ok |-> TRUE]
    ELSE [ret |-> FALSE, raised |-> outcome \notin PushCaught,
          tracker |-> tracker, posted |-> TRUE, post_ok |-> FALSE]

\* mutant: a successful POST does not mark the id (line 398 is missing)
send_notification_unmarked(call, tracker, outcome) ==
    IF is_already_notified(tracker, call.incident_number)
    THEN [ret |-> FALSE, raised |-> FALSE, tracker |-> tracker,
          posted |-> FALSE, post_ok |-> FALSE]
    ELSE [ret |-> outcome = "ok", raised |-> outcome \notin PushCaught \cup {"ok"},
          tracker |-> tracker, posted |-> TRUE, post_ok |-> outcome = "ok"]

\* send_notification: ret is the return value, raised is TRUE when an
\* exception leaves the function instead
send_notification(call, tracker, outcome) ==
    IF is_already_notified(tracker, call.incident_number)
    THEN [ret |-> FALSE, raised |-> FALSE, tracker |-> tracker,
          posted |-> FALSE, post_ok |-> FALSE]
    ELSE IF outcome = "ok"
    THEN [ret |-> TRUE, raised |-> FALSE,
          tracker |-> mark_as_notified(tracker, call.incident_number),
          posted |-> TRUE, post_ok |-> TRUE]
    ELSE [ret |-> FALSE, raised |-> outcome \notin PushCaught,
          tracker |-> tracker, posted |-> TRUE, post_ok |-> FALSE]

\* send_email_notification: called is TRUE when resend.Emails.send was called
send_email_notification(enabled, outcome) ==
    IF ~enabled
    THEN [ret |-> FALSE, raised |-> FALSE, called |-> FALSE]
    ELSE [ret |-> outcome = "ok", raised |-> FALSE, called |-> TRUE]

\* mutant: the records are taken last to first
CurrentCall_reversed(calls, i) == calls[Len(calls) + 1 - i]

\* line 560: for call in matching_calls, at the i-th iteration
CurrentCall(calls, i) == calls[i]

\* mutant: every iteration counts
CountSent_always(n, ntfy) == n + 1

\* lines 570-571: if ntfy_success: notifications_sent += 1
CountSent(n, ntfy) == IF ntfy THEN n + 1 ELSE n

\* mutant: the email is sent whatever the push returned
EmailGate_always(ntfy) == TRUE

\* line 567: if ntfy_success
EmailGate(ntfy) == ntfy

----------------------------------------------------------------------------
(* monitor_loop: the consecutive-error counter and the backoff *)

Min(a, b) == IF a <= b THEN a ELSE b

\* mutant: a successful cycle leaves the counter alone
ResetErrors_keep(n) == n

\* line 622: consecutive_errors = 0
ResetErrors(n) == 0

\* lines 629 and 642: consecutive_errors += 1
CountError(n) == n + 1

\* mutant: the comparison is strict
ThresholdReached_strict(n) == n > max_consecutive_errors

\* lines 632 and 645: if consecutive_errors >= max_consecutive_errors
ThresholdReached(n) == n >= max_consecutive_errors

\* mutant: the exponent is not shifted by one
NetworkBackoff_unshifted(n) == Min(BackoffCap, BackoffBase * 2 ^ n)

\* line 637: min(300, 30 * (2 ** (consecutive_errors - 1)))
NetworkBackoff(n) == Min(BackoffCap, BackoffBase * 2 ^ (n - 1))

\* the wait of the except clause `class` at counter value n
BackoffOf(class, n) ==
    IF class = "network" THEN NetworkBackoff(n) ELSE GenericBackoff

\* mutant: the generic clause counts from one again
Handler_generic_restarts(class) ==
    LET n == IF class = "generic" THEN 1 ELSE CountError(consecutive_errors)
    IN  /\ consecutive_errors' = n
        /\ last_error' = class
        /\ net_streak' = net_streak + (IF class = "network" THEN 1 ELSE 0)
        /\ gen_streak' = gen_streak + (IF class = "generic" THEN 1 ELSE 0)
        /\ IF ThresholdReached(n)
           THEN /\ pc' = "fatal"
                /\ backoff_time' = backoff_time
           ELSE /\ pc' = "backoff"
                /\ backoff_time' = BackoffOf(class, n)

\* an except clause of monitor_loop (lines 628-651) catches an exception of
\* class "network" (requests.exceptions.RequestException) or "generic"
Handler(class) ==
    LET n == CountError(consecutive_errors)
    IN  /\ consecutive_errors' = n
        /\ last_error' = class
        /\ net_streak' = net_streak + (IF class = "network" THEN 1 ELSE 0)
        /\ gen_streak' = gen_streak + (IF class = "generic" THEN 1 ELSE 0)
        /\ IF ThresholdReached(n)
           THEN /\ pc' = "fatal"
                /\ backoff_time' = backoff_time
           ELSE /\ pc' = "backoff"
                /\ backoff_time' = BackoffOf(class, n)

\* lines 621-626: the try body got past the notifications
CycleDone ==
    /\ consecutive_errors' = ResetErrors(consecutive_errors)
    /\ net_streak' = 0
    /\ gen_streak' = 0
    /\ pc' = "sleep"

main_vars == << poll_interval, email_enabled, exit_code, summary, interrupted >>
tracker_vars == << tracker_op, tracker_ret, mark_calls >>
unit_vars == << raw_data, active_calls, bom_calls, filter_term, args >>
notify_vars == << notified_incidents, matching_calls, idx, notifications_sent,
                  ntfy_success, email_success, cur, post_made, email_invoked,
                  caught, push_ok, posted_ok, failed_push, start_tracker,
                  resend_called, email_calls, email_failed >>

----------------------------------------------------------------------------
(* Actions *)

TrackerIds == {"A", "B", "C"}

Running == {"fetch", "notify", "sleep", "backoff"}

NoCall == "-"       \* cur when the for loop has not run yet
NoSummary == -1     \* summary when no count was logged

\* lines 599-619 with a feed GET that succeeds: fetch, parse, filter; with no
\* match the cycle is complete (lines 618-626)
FetchOKBody ==
    /\ pc = "fetch"
    /\ \E raw \in Feeds :
         LET parsed == parse_active_calls(raw)
             found == search_calls_by_location(parsed, search_term)
         IN  /\ raw_kind' = raw.kind
             /\ waits' = <<>>
             /\ IF ParseEscapes(raw)
                THEN /\ Handler("generic")
                     /\ UNCHANGED << matching_calls, idx, notifications_sent,
                                     start_tracker >>
                ELSE /\ matching_calls' = found
                     /\ UNCHANGED << backoff_time, last_error >>
                     /\ IF found # <<>>
                        THEN /\ pc' = "notify"
                             /\ idx' = 1
                             /\ notifications_sent' = 0
                             /\ start_tracker' = notified_incidents
                             /\ UNCHANGED << consecutive_errors, net_streak,
                                             gen_streak >>
                        ELSE /\ CycleDone
                             /\ UNCHANGED << idx, notifications_sent,
                                             start_tracker >>
    /\ fetch_ok_seen' = TRUE
    /\ UNCHANGED << main_vars, tracker_vars, unit_vars,
                    notified_incidents, ntfy_success, email_success, cur,
                    post_made, email_invoked, caught, push_ok, posted_ok,
                    failed_push, resend_called, email_calls, email_failed >>

\* fetch_active_calls re-raises a requests exception (lines 225-236), caught at line 628
FetchNetworkErrorBody ==
    /\ pc = "fetch"
    /\ Handler("network")
    /\ waits' = <<>>
    /\ UNCHANGED << main_vars, tracker_vars, unit_vars, notify_vars, fetch_ok_seen,
                    raw_kind >>

\* any other Exception in the fetch, caught at line 641
FetchGenericErrorBody ==
    /\ pc = "fetch"
    /\ Handler("generic")
    /\ waits' = <<>>
    /\ UNCHANGED << main_vars, tracker_vars, unit_vars, notify_vars, fetch_ok_seen,
                    raw_kind >>

\* line 596: loop_count += 1, in a run of at most MaxLoops cycles
CountLoop ==
    /\ loop_count < MaxLoops
    /\ loop_count' = loop_count + 1

FetchOK == CountLoop /\ FetchOKBody

FetchNetworkError == CountLoop /\ FetchNetworkErrorBody

FetchGenericError == CountLoop /\ FetchGenericErrorBody

\* one iteration of the for loop of process_and_notify_matches (lines 560-574)
NotifyCall ==
    /\ pc = "notify"
    /\ idx <= Len(matching_calls)
    /\ \E po \in PushOutcomes, eo \in EmailOutcomes :
         LET call == CurrentCall(matching_calls, idx)
             id == call.incident_number
             p == send_notification(call, notified_incidents, po)
             gate == ~p.raised /\ EmailGate(p.ret)
             e == IF gate
                  THEN send_email_notification(email_enabled, eo)
                  ELSE [ret |-> FALSE, raised |-> FALSE, called |-> FALSE]
             raised == p.raised \/ e.raised
         IN  /\ notified_incidents' = p.tracker
             /\ ntfy_success' = IF p.raised THEN ntfy_success ELSE p.ret
             /\ email_success' = IF p.raised THEN email_success
                                 ELSE IF e.raised THEN FALSE ELSE e.ret
             /\ notifications_sent' =
                  IF raised THEN notifications_sent
                  ELSE CountSent(notifications_sent, p.ret)
             /\ caught' = raised
             /\ cur' = id
             /\ post_made' = p.posted
             /\ email_invoked' = gate
             /\ resend_called' = e.called
             /\ email_calls' =
                  [email_calls EXCEPT ![id] = @ + (IF e.called THEN 1 ELSE 0)]
             /\ email_failed' = IF e.called /\ ~e.ret
                                THEN email_failed \cup {id} ELSE email_failed
             /\ push_ok' = [push_ok EXCEPT ![id] = @ + (IF p.ret THEN 1 ELSE 0)]
             /\ posted_ok' = IF p.post_ok THEN posted_ok \cup {id} ELSE posted_ok
             /\ failed_push' = IF p.posted /\ ~p.post_ok
                               THEN failed_push \cup {id} ELSE failed_push
    /\ idx' = idx + 1
    /\ UNCHANGED << main_vars, tracker_vars, unit_vars, pc, loop_count,
                    consecutive_errors, backoff_time, matching_calls, net_streak,
                    gen_streak, fetch_ok_seen, last_error, raw_kind,
                    start_tracker, waits >>

\* process_and_notify_matches returns (lines 576-579) and the cycle is
\* complete (lines 614-626); the locals of the finished call are dropped
ProcessReturn ==
    /\ pc = "notify"
    /\ idx > Len(matching_calls)
    /\ CycleDone
    /\ matching_calls' = <<>>
    /\ idx' = 0
    /\ notifications_sent' = 0
    /\ ntfy_success' = FALSE
    /\ email_success' = FALSE
    /\ cur' = NoCall
    /\ post_made' = FALSE
    /\ email_invoked' = FALSE
    /\ resend_called' = FALSE
    /\ caught' = FALSE
    /\ start_tracker' = {}
    /\ UNCHANGED << main_vars, tracker_vars, unit_vars, loop_count, backoff_time,
                    notified_incidents, push_ok, posted_ok, failed_push,
                    fetch_ok_seen, last_error, raw_kind, waits, email_calls,
                    email_failed >>

\* line 626: time.sleep(config.poll_interval); a negative interval makes
\* time.sleep raise ValueError inside the try, caught at line 641
Sleep ==
    /\ pc = "sleep"
    /\ IF poll_interval < 0
       THEN /\ Handler("generic")
            /\ UNCHANGED waits
       ELSE /\ pc' = "fetch"
            /\ waits' = Append(waits, <<"poll", poll_interval>>)
            /\ UNCHANGED << consecutive_errors, backoff_time, last_error,
                            net_streak, gen_streak >>
    /\ raw_kind' = "none"
    /\ UNCHANGED << main_vars, tracker_vars, unit_vars, notify_vars, loop_count,
                    fetch_ok_seen >>

\* lines 639 and 651: time.sleep(backoff) returns, the loop goes round
Backoff ==
    /\ pc = "backoff"
    /\ pc' = "fetch"
    /\ waits' = Append(waits, <<"backoff", backoff_time>>)
    /\ raw_kind' = "none"
    /\ UNCHANGED << main_vars, tracker_vars, unit_vars, notify_vars, loop_count,
                    consecutive_errors, backoff_time, last_error, net_streak,
                    gen_streak, fetch_ok_seen >>

loop_vars == << loop_count, consecutive_errors, backoff_time, last_error,
                net_streak, gen_streak, fetch_ok_seen, raw_kind, waits >>

\* main, line 657: parse_arguments builds the Config (lines 176-183, 100-115)
Configure ==
    /\ pc = "startup"
    /\ pc' = "configured"
    /\ poll_interval' = args.interval
    /\ email_enabled' = EmailEnabled(args)
    /\ UNCHANGED << exit_code, summary, interrupted, tracker_vars, unit_vars,
                    notify_vars, loop_vars >>

\* main, lines 659-682: logging is set up, the tracker is created (line 673)
\* and monitor_loop is called; the parsed command line is gone
StartMonitor ==
    /\ pc = "configured"
    /\ pc' = "fetch"
    /\ args' = NoArgs
    /\ UNCHANGED << main_vars, tracker_vars, raw_data, active_calls, bom_calls,
                    filter_term, notify_vars, loop_vars >>

\* lines 686 and 689: the count in the summary line of main
LoggedCount(tracker) == get_notification_count(tracker)

\* main, lines 684-686: KeyboardInterrupt during monitor_loop
Interrupt ==
    /\ pc \in Running
    /\ pc' = "exited"
    /\ exit_code' = 0
    /\ interrupted' = TRUE
    /\ summary' = LoggedCount(notified_incidents)
    /\ UNCHANGED << poll_interval, email_enabled, tracker_vars, unit_vars,
                    notify_vars, loop_vars >>

\* main: KeyboardInterrupt before line 673.  The except clause of line 684
\* reads `tracker` at line 686 while the name is unbound: UnboundLocalError
\* leaves main, the interpreter prints the traceback and exits with status 1
InterruptStartup ==
    /\ pc \in {"startup", "configured"}
    /\ pc' = "exited"
    /\ exit_code' = 1
    /\ interrupted' = TRUE
    /\ UNCHANGED << poll_interval, email_enabled, summary, tracker_vars,
                    unit_vars, notify_vars, loop_vars >>

\* main, lines 687-690: the exception re-raised by monitor_loop
Fatal ==
    /\ pc = "fatal"
    /\ pc' = "exited"
    /\ exit_code' = 1
    /\ summary' = LoggedCount(notified_incidents)
    /\ UNCHANGED << poll_interval, email_enabled, interrupted, tracker_vars,
                    unit_vars, notify_vars, loop_vars >>

\* main up to the call of monitor_loop (lines 655-682)
Start ==
    /\ loop_count = 0
    /\ consecutive_errors = 0
    /\ backoff_time = 0
    /\ notified_incidents = TrackerNew
    /\ matching_calls = <<>>
    /\ idx = 0
    /\ notifications_sent = 0
    /\ ntfy_success = FALSE
    /\ email_success = FALSE
    /\ exit_code = -1
    /\ summary = NoSummary
    /\ interrupted = FALSE
    /\ raw_kind = "none"
    /\ start_tracker = {}
    /\ resend_called = FALSE
    /\ waits = <<>>
    /\ email_calls = [i \in Ids |-> 0]
    /\ email_failed = {}
    /\ cur = NoCall
    /\ post_made = FALSE
    /\ email_invoked = FALSE
    /\ caught = FALSE
    /\ push_ok = [i \in Ids |-> 0]
    /\ posted_ok = {}
    /\ failed_push = {}
    /\ net_streak = 0
    /\ gen_streak = 0
    /\ fetch_ok_seen = FALSE
    /\ last_error = "none"
    /\ tracker_op = <<"__init__", "">>
    /\ tracker_ret = <<>>
    /\ mark_calls = [i \in TrackerIds |-> 0]

\* the variables of the specifications of single functions, unused
Idle ==
    /\ raw_data = [kind |-> "none", lead |-> <<>>, calls |-> <<>>]
    /\ active_calls = <<>>
    /\ bom_calls = <<>>
    /\ filter_term = <<>>
    /\ args = NoArgs

Init ==
    /\ pc = "startup"
    /\ poll_interval = DEFAULT_POLL_INTERVAL
    /\ email_enabled = FALSE
    /\ Start
    /\ raw_data = [kind |-> "none", lead |-> <<>>, calls |-> <<>>]
    /\ active_calls = <<>>
    /\ bom_calls = <<>>
    /\ filter_term = <<>>
    /\ args \in ArgSets

Next ==
    \/ Configure
    \/ StartMonitor
    \/ InterruptStartup
    \/ FetchOK
    \/ FetchNetworkError
    \/ FetchGenericError
    \/ NotifyCall
    \/ ProcessReturn
    \/ Sleep
    \/ Backoff
    \/ Interrupt
    \/ Fatal

Spec == Init /\ [][Next]_vars

\* every blocking call of the loop is bounded: the feed GET has a timeout of
\* 30 (line 219), each sleep has a finite length, main handles the re-raised
\* exception at once
FetchStep == FetchOK \/ FetchNetworkError \/ FetchGenericError

LiveSpec ==
    /\ Spec
    /\ WF_vars(Configure)
    /\ WF_vars(StartMonitor)
    /\ WF_vars(FetchStep)
    /\ WF_vars(Sleep)
    /\ WF_vars(Backoff)
    /\ WF_vars(Fatal)

----------------------------------------------------------------------------
(* The loop without a bound on its cycles.  loop_count is only logged (line
   597): here it counts the cycles up to MaxCounted and then keeps that
   value, which leaves the state space finite while the loop runs for ever. *)

\* line 596: loop_count += 1, the cycles past MaxCounted not told apart
CountLoopEver ==
    loop_count' = IF loop_count < MaxCounted THEN loop_count + 1 ELSE loop_count

EverFetchOK == CountLoopEver /\ FetchOKBody

EverFetchNetworkError == CountLoopEver /\ FetchNetworkErrorBody

EverFetchGenericError == CountLoopEver /\ FetchGenericErrorBody

EverNext ==
    \/ Configure
    \/ StartMonitor
    \/ InterruptStartup
    \/ EverFetchOK
    \/ EverFetchNetworkError
    \/ EverFetchGenericError
    \/ NotifyCall
    \/ ProcessReturn
    \/ Sleep
    \/ Backoff
    \/ Interrupt
    \/ Fatal

\* the push of the iteration for incident id succeeds
PushSucceeds(id) == NotifyCall /\ cur' = id /\ ntfy_success'

\* the steps of the thread are taken (each call and sleep is bounded), and a
\* push that is attempted again and again for an incident succeeds at last
ProgressSpec ==
    /\ Init
    /\ [][EverNext]_vars
    /\ WF_vars(Configure)
    /\ WF_vars(StartMonitor)
    /\ WF_vars(EverFetchOK \/ EverFetchNetworkError \/ EverFetchGenericError)
    /\ WF_vars(NotifyCall)
    /\ WF_vars(ProcessReturn)
    /\ WF_vars(Sleep)
    /\ WF_vars(Backoff)
    /\ WF_vars(Fatal)
    /\ \A id \in Ids : SF_vars(PushSucceeds(id))

----------------------------------------------------------------------------
(* NotificationTracker on its own: any sequence of calls of its methods *)

program_vars == << pc, loop_count, consecutive_errors, backoff_time,
                   last_error, net_streak, gen_streak, fetch_ok_seen,
                   matching_calls, idx, notifications_sent, ntfy_success,
                   email_success, cur, post_made, email_invoked, caught,
                   push_ok, posted_ok, failed_push, raw_kind, start_tracker,
                   resend_called, waits, email_calls, email_failed >>

TrackerMark ==
    \E id \in TrackerIds :
        /\ mark_calls[id] < MaxMarks
        /\ notified_incidents' = mark_as_notified(notified_incidents, id)
        /\ tracker_op' = <<"mark_as_notified", id>>
        /\ tracker_ret' = <<>>
        /\ mark_calls' = [mark_calls EXCEPT ![id] = @ + 1]
        /\ UNCHANGED << main_vars, unit_vars, program_vars >>

TrackerCheck ==
    \E id \in TrackerIds :
        /\ tracker_op' = <<"is_already_notified", id>>
        /\ tracker_ret' = << is_already_notified(notified_incidents, id) >>
        /\ UNCHANGED << main_vars, unit_vars, program_vars, notified_incidents, mark_calls >>

TrackerCount ==
    /\ tracker_op' = <<"get_notification_count", "">>
    /\ tracker_ret' = << get_notification_count(notified_incidents) >>
    /\ UNCHANGED << main_vars, unit_vars, program_vars, notified_incidents, mark_calls >>

TrackerInit ==
    /\ pc = "tracker"
    /\ poll_interval = DEFAULT_POLL_INTERVAL
    /\ email_enabled = FALSE
    /\ Start
    /\ Idle

TrackerNext ==
    \/ TrackerMark
    \/ TrackerCheck
    \/ TrackerCount

TrackerSpec == TrackerInit /\ [][TrackerNext]_vars

----------------------------------------------------------------------------
(* parse_active_calls on its own: one text, parsed as it is and once more
   behind an added byte-order mark, the result filtered as monitor_loop does *)

\* everything but pc, matching_calls, resend_called and the unit variables
monitor_vars == << poll_interval, email_enabled, exit_code, summary,
                   interrupted, loop_vars, tracker_vars, notified_incidents,
                   idx, notifications_sent, ntfy_success, email_success, cur,
                   post_made, email_invoked, caught, push_ok, posted_ok,
                   failed_push, start_tracker, email_calls, email_failed >>

Fields == {"DATE", "DESC", "LOCATION", "DISTRICT"}

\* the PoliceCall attribute filled from each child element (lines 302-308)
FieldOf == [DATE |-> "datetime_str", DESC |-> "call_type",
            LOCATION |-> "location", DISTRICT |-> "district"]

Blank == <<" ">>    \* a child element whose text is white space

\* CALL elements in which at most one child is absent, without text or blank,
\* and one without the incident attribute
ParseElems ==
    { Elem("A", LocMatch), Elem(NoIncident, LocMatch) }
    \cup { [Elem("A", LocMatch) EXCEPT ![f] = v] :
             f \in Fields, v \in {Missing, NoText, Blank} }

Leads == SeqsUpTo({BOM, Artifact}, MaxLead)

ParseTexts ==
    { [kind |-> "xml", lead |-> l, calls |-> cs] :
        l \in Leads, cs \in SeqsUpTo(ParseElems, MaxParseLen) }
    \cup { [kind |-> k, lead |-> l, calls |-> <<>>] :
             k \in {"blank", "malformed"}, l \in Leads }

\* the text with one more byte-order mark in front
WithBOM(raw) == [raw EXCEPT !.lead = <<BOM>> \o @]

ParseText ==
    /\ pc = "parse"
    /\ active_calls' = parse_active_calls(raw_data)
    /\ pc' = "parsed"
    /\ UNCHANGED << monitor_vars, matching_calls, resend_called, raw_data,
                    bom_calls, filter_term, args >>

ParseBOMText ==
    /\ pc = "parsed"
    /\ bom_calls' = parse_active_calls(WithBOM(raw_data))
    /\ pc' = "compared"
    /\ UNCHANGED << monitor_vars, matching_calls, resend_called, raw_data,
                    active_calls, filter_term, args >>

\* line 611: search_calls_by_location(active_calls, config.search_term)
SearchParsed ==
    /\ pc = "compared"
    /\ matching_calls' = search_calls_by_location(active_calls, search_term)
    /\ pc' = "searched"
    /\ UNCHANGED << monitor_vars, resend_called, raw_data, active_calls,
                    bom_calls, filter_term, args >>

ParseInit ==
    /\ pc = "parse"
    /\ poll_interval = DEFAULT_POLL_INTERVAL
    /\ email_enabled = FALSE
    /\ Start
    /\ raw_data \in ParseTexts
    /\ active_calls = <<>>
    /\ bom_calls = <<>>
    /\ filter_term = <<>>
    /\ args = NoArgs

ParseNext ==
    \/ ParseText
    \/ ParseBOMText
    \/ SearchParsed

ParseSpec == ParseInit /\ [][ParseNext]_vars

----------------------------------------------------------------------------
(* search_calls_by_location on its own: one record list, searched for one
   term after another *)

FilterLocations ==
    { <<>>, <<"f", "o">>, <<"F", "O">>, <<"o", "f">>, <<"x", "F", "o">> }

FilterCalls == { PoliceCall(Elem(id, loc)) : id \in Ids, loc \in FilterLocations }

FilterTerms ==
    { <<>>, <<"f">>, <<"f", "o">>, <<"F", "O">>, <<"F", "o">>, <<"o", "f">>,
      <<"z">> }

Search ==
    /\ pc \in {"filter", "searched"}
    /\ \E t \in FilterTerms :
         /\ filter_term' = t
         /\ matching_calls' = search_calls_by_location(active_calls, t)
    /\ pc' = "searched"
    /\ UNCHANGED << monitor_vars, resend_called, raw_data, active_calls,
                    bom_calls, args >>

FilterInit ==
    /\ pc = "filter"
    /\ poll_interval = DEFAULT_POLL_INTERVAL
    /\ email_enabled = FALSE
    /\ Start
    /\ raw_data = [kind |-> "none", lead |-> <<>>, calls |-> <<>>]
    /\ active_calls \in SeqsUpTo(FilterCalls, MaxFilterLen)
    /\ bom_calls = <<>>
    /\ filter_term = <<>>
    /\ args = NoArgs

FilterNext == Search

FilterSpec == FilterInit /\ [][FilterNext]_vars

----------------------------------------------------------------------------
(* Claims *)

\* C1: send_notification returns True at most once for each incident id, and
\* an id in the tracker stays there and gets no further push POST and no
\* further True for the rest of the run.
C1_AtMostOncePush ==
    /\ [](\A id \in Ids : push_ok[id] <= 1)
    /\ [][\A id \in notified_incidents :
            /\ id \in notified_incidents'
            /\ push_ok'[id] = push_ok[id]
            /\ (cur' = id /\ idx' = idx + 1) => (~post_made' /\ ~ntfy_success')]_vars

\* C1 witness: a second poll meets an id the tracker holds and skips it
C1_Witness ==
    /\ pc = "notify"
    /\ loop_count >= 2
    /\ cur \in notified_incidents
    /\ push_ok[cur] = 1
    /\ ~post_made
    /\ ~ntfy_success

\* C2: within an iteration of process_and_notify_matches,
\* send_email_notification is called only if the push of that iteration
\* returned True; after a duplicate or a failed push it is not called.
C2_PushGatesEmail ==
    (pc = "notify" /\ cur # NoCall) =>
        /\ email_invoked => (ntfy_success /\ post_made)
        /\ ~ntfy_success => (~email_invoked /\ ~email_success)

\* C2 witness: a push that failed, with the email channel enabled, and no email call
C2_Witness ==
    /\ pc = "notify"
    /\ email_enabled
    /\ post_made
    /\ ~ntfy_success
    /\ ~email_invoked

\* C3: the tracker starts empty and holds only ids whose push POST completed
\* with a non-error status earlier in the run.
C3_TrackerOnlySuccessfulDispatch ==
    /\ notified_incidents \subseteq posted_ok
    /\ loop_count = 0 => notified_incidents = {}

\* C3 witness: one id marked after its push, another not marked after a failed push
C3_Witness ==
    /\ notified_incidents # {}
    /\ failed_push \ notified_incidents # {}
    /\ last_error # "none"

\* C4: after mark_as_notified(id) the id tests as notified, now and in every
\* later is_already_notified(id); a repeated mark_as_notified(id) changes
\* neither the set nor the count; the set never shrinks and the count never
\* decreases.
C4_TrackerIdempotentMonotone ==
    [][ /\ notified_incidents \subseteq notified_incidents'
        /\ get_notification_count(notified_incidents')
             >= get_notification_count(notified_incidents)
        /\ \A id \in TrackerIds :
             /\ mark_calls'[id] > mark_calls[id]
                  => is_already_notified(notified_incidents', id)
             /\ (mark_calls[id] > 0 /\ mark_calls'[id] > mark_calls[id])
                  => /\ notified_incidents' = notified_incidents
                     /\ get_notification_count(notified_incidents')
                          = get_notification_count(notified_incidents)
             /\ (mark_calls[id] > 0 /\ tracker_op' = <<"is_already_notified", id>>)
                  => tracker_ret' = <<TRUE>>
      ]_vars

\* C4 witness: an id marked twice among others, then tested
C4_Witness ==
    /\ mark_calls["A"] = 2
    /\ mark_calls["B"] = 1
    /\ tracker_op = <<"is_already_notified", "A">>
    /\ tracker_ret = <<TRUE>>
    /\ get_notification_count(notified_incidents) = 2

\* C5 as stated: a network failure that brings the counter to n in 1..5 is
\* followed by the backoff 30, 60, 120, 240, 300, and the 5th consecutive
\* failure terminates the process.
C5_Original ==
    /\ (last_error = "network" /\ pc \in {"backoff", "fatal"}) =>
         /\ consecutive_errors \in 1..5
         /\ backoff_time = <<30, 60, 120, 240, 300>>[consecutive_errors]
    /\ pc = "fatal" <=> consecutive_errors = 5 /\ exit_code = -1

\* C5 amended: a network failure that brings the counter to n in 1..4 is
\* followed by the backoff 30, 60, 120, 240; the 5th consecutive failure
\* terminates the process before any backoff is computed, so 300, the capped
\* value of the formula at 5, is never waited.
C5_BackoffSequence ==
    /\ (last_error = "network" /\ pc = "backoff") =>
         /\ consecutive_errors \in 1..4
         /\ backoff_time = <<30, 60, 120, 240>>[consecutive_errors]
    /\ pc = "fatal" <=> consecutive_errors = 5 /\ exit_code = -1
    /\ backoff_time # 300
    /\ NetworkBackoff(5) = 300

\* C5 witness: the 5th network failure in a row ends the loop, the last
\* backoff computed being the 240 of the 4th
C5_Witness ==
    /\ pc = "fatal"
    /\ net_streak = 5
    /\ last_error = "network"
    /\ backoff_time = 240

\* every feed GET of the run so far raised a transport error
AllFetchesFailed == ~fetch_ok_seen /\ gen_streak = 0

\* the fetch attempts of a run whose fetches all fail, and the counter at a fatal end
DeadEndpointAttempts ==
    /\ AllFetchesFailed =>
         /\ loop_count <= 5
         /\ loop_count = 5 => (pc = "fatal" \/ (pc = "exited" /\ exit_code = 1))
         /\ (pc = "fatal" \/ (exit_code = 1 /\ ~interrupted)) => loop_count = 5
    /\ (pc = "fatal" \/ (exit_code = 1 /\ ~interrupted)) => consecutive_errors >= 5

\* C6: when every feed GET raises a transport error the loop eventually ends
\* (by re-raising, unless an interrupt ends the process first), and it ends by
\* re-raising at the 5th attempt: there is no 6th attempt and no fatal end
\* before the 5th; in any run, it never ends fatally with the counter below 5.
C6_DeadEndpointTerminates ==
    /\ []DeadEndpointAttempts
    /\ ([]AllFetchesFailed) => <>(pc \in {"fatal", "exited"})

\* C6 witness: the process has exited non-zero after 5 failed fetches and nothing else
C6_Witness ==
    /\ AllFetchesFailed
    /\ pc = "exited"
    /\ exit_code = 1
    /\ loop_count = 5
    /\ net_streak = 5

\* C7: network and generic failures with no successful cycle in between add
\* up in the one counter, and the loop ends exactly when they number 5.
C7_SharedCounter ==
    /\ consecutive_errors = net_streak + gen_streak
    /\ pc = "fatal" => net_streak + gen_streak = 5
    /\ (pc \in Running) => net_streak + gen_streak < 5

\* C7 witness: the loop ended on a mix of both classes
C7_Witness ==
    /\ pc = "fatal"
    /\ net_streak >= 2
    /\ gen_streak >= 2

\* C8: a cycle that completes fetch, parse, filter and notify sets the counter
\* to 0; the counter stays in 0..5, is 5 only once the loop has ended fatally,
\* and a fatal end has 5 failed cycles since the last completed one.
C8_CounterResetAndRange ==
    /\ consecutive_errors \in 0..5
    /\ consecutive_errors = 5 <=> (pc = "fatal" \/ (exit_code = 1 /\ ~interrupted))
    /\ pc = "sleep" => consecutive_errors = 0
    /\ pc = "fatal" => net_streak + gen_streak = 5

\* C8 witness: a completed cycle has reset the counter after a streak of 4 network failures
C8_Witness ==
    /\ pc = "sleep"
    /\ consecutive_errors = 0
    /\ last_error = "network"
    /\ backoff_time = 240

\* a step that is one iteration of the for loop of process_and_notify_matches
NotifyStep == pc = "notify" /\ idx' = idx + 1

PushFailed == post_made /\ ~ntfy_success
EmailFailed == email_invoked /\ email_enabled /\ ~email_success

\* C9 as stated: after a push failure or an email failure the incident is
\* unmarked, and an unmarked matching incident gets a push attempt in every
\* iteration that handles it.
C9_Original ==
    /\ []((pc = "notify" /\ cur # NoCall /\ (PushFailed \/ EmailFailed))
            => cur \notin notified_incidents)
    /\ [][NotifyStep => (cur' \notin notified_incidents => post_made')]_vars

\* C9 amended: after a push failure the incident is unmarked, and an unmarked
\* matching incident gets a push attempt in every iteration that handles it,
\* no matching record being skipped; after an email failure the incident is
\* already marked (its push succeeded first) and gets no further push or
\* email attempt.
C9_ChannelFailureRetry ==
    /\ []((pc = "notify" /\ cur # NoCall /\ PushFailed) => cur \notin notified_incidents)
    /\ []((pc = "notify" /\ cur # NoCall /\ EmailFailed) => cur \in notified_incidents)
    /\ [][NotifyStep =>
            /\ cur' = matching_calls[idx].incident_number
            /\ cur' \notin notified_incidents => post_made'
            /\ cur' \in notified_incidents => (~post_made' /\ ~email_invoked')]_vars
    /\ [][(pc = "notify" /\ pc' = "sleep") => idx > Len(matching_calls)]_vars

\* C9 witness: a push succeeds for an incident whose push failed before, and
\* the email that follows fails with the incident marked
C9_Witness ==
    /\ pc = "notify"
    /\ cur \in failed_push
    /\ post_made
    /\ ntfy_success
    /\ EmailFailed
    /\ cur \in notified_incidents

\* C10: no exception leaves send_notification or send_email_notification; a
\* failed push or email is a False result; an iteration of
\* process_and_notify_matches changes neither the consecutive-error counter
\* nor the backoff nor the position of the loop, and the call returns only
\* after every matching record had its iteration.
C10_ChannelFailureNotEscalated ==
    /\ [](~caught)
    /\ []((pc = "notify" /\ cur # NoCall /\ post_made /\ cur \notin notified_incidents)
            => ~ntfy_success)
    /\ [][NotifyStep =>
            /\ pc' = "notify"
            /\ consecutive_errors' = consecutive_errors
            /\ backoff_time' = backoff_time
            /\ last_error' = last_error
            /\ net_streak' = net_streak
            /\ gen_streak' = gen_streak]_vars
    /\ [][(pc = "notify" /\ pc' \notin {"notify", "exited"})
            => (pc' = "sleep" /\ idx > Len(matching_calls))]_vars

\* C10 witness: in one cycle, entered with the counter at 2, the push of the
\* first matching record failed and the second record was attempted and sent
C10_Witness ==
    /\ pc = "notify"
    /\ idx = 3
    /\ consecutive_errors = 2
    /\ matching_calls[1].incident_number \in failed_push \ notified_incidents
    /\ cur = matching_calls[2].incident_number
    /\ post_made
    /\ ntfy_success

\* a feed GET succeeded and returned a body parse_active_calls cannot parse
BadBody == raw_kind \in {"blank", "malformed"}

\* C11: when the feed GET succeeds and the body is malformed markup, empty or
\* white space only, parse_active_calls returns an empty sequence and raises
\* nothing: the cycle has no matching record and sends no notification, the
\* consecutive-error counter is not incremented (the completed cycle sets it
\* to 0), no except clause of the loop runs and no backoff is computed, and
\* the loop goes to the poll-interval sleep.
C11_ParseFailureNotLoopError ==
    /\ [](BadBody => (pc \in {"sleep", "exited"} /\ matching_calls = <<>>))
    /\ [][(pc = "fetch" /\ BadBody') =>
            /\ pc' = "sleep"
            /\ consecutive_errors' = 0
            /\ backoff_time' = backoff_time
            /\ last_error' = last_error
            /\ notified_incidents' = notified_incidents
            /\ push_ok' = push_ok
            /\ posted_ok' = posted_ok
            /\ failed_push' = failed_push]_vars

\* C11 witness: a malformed body follows a network failure; the loop is at the
\* poll-interval sleep with the counter back at 0 and nothing sent
C11_Witness ==
    /\ pc = "sleep"
    /\ raw_kind = "malformed"
    /\ last_error = "network"
    /\ backoff_time = 30
    /\ consecutive_errors = 0
    /\ notified_incidents = {}

AbsentChild(e) == \E f \in Fields : e[f] = Missing
EmptyChild(e) == \E f \in Fields : e[f] \in {NoText, Blank}

\* the positions of raw_data.calls, in order, that satisfy P
Positions(P(_)) ==
    SelectSeq([i \in 1..Len(raw_data.calls) |-> i],
              LAMBDA i : P(raw_data.calls[i]))

\* parse_active_calls has returned for a text the XML parser accepts
ParsedDocument ==
    /\ pc \in {"parsed", "compared", "searched"}
    /\ raw_data.kind = "xml"
    /\ raw_data.lead \in {<<>>, <<BOM>>, <<BOM, BOM>>}

\* C12 as stated: a CALL in which one of the four child fields is empty or
\* missing yields no output record, so the output has no more records than
\* there are CALLs with four non-empty fields, and no record with an empty
\* field.
C12_Original ==
    ParsedDocument =>
        /\ Len(active_calls)
             <= Len(Positions(LAMBDA e : ~AbsentChild(e) /\ ~EmptyChild(e)))
        /\ \A i \in 1..Len(active_calls) : \A f \in Fields :
             active_calls[i][FieldOf[f]] # <<>>

\* C12 amended: a CALL with one of the four child elements missing yields no
\* output record and never reaches matching; a CALL whose child element is
\* present but has no text, or blank text, is kept, with the empty string as
\* the value of that field.  The output is, in input order, one record for
\* each CALL that has its four child elements.
C12_DroppedIncomplete ==
    /\ ParsedDocument =>
         LET kept == Positions(LAMBDA e : ~AbsentChild(e))
         IN  /\ Len(active_calls) = Len(kept)
             /\ \A j \in 1..Len(kept) : \A f \in Fields :
                  LET v == raw_data.calls[kept[j]][f]
                  IN  active_calls[j][FieldOf[f]]
                        = IF v \in {NoText, Blank} THEN <<>> ELSE v
    /\ pc = "searched" =>
         \A i \in 1..Len(matching_calls) :
           \E j \in 1..Len(active_calls) : matching_calls[i] = active_calls[j]

\* C12 witness: of two CALLs, the one with a missing child is dropped and the
\* one with a child without text is kept with an empty field
C12_Witness ==
    /\ pc = "searched"
    /\ raw_data.kind = "xml"
    /\ Len(raw_data.calls) = 2
    /\ AbsentChild(raw_data.calls[1])
    /\ raw_data.calls[2].DESC = NoText
    /\ Len(active_calls) = 1
    /\ active_calls[1].call_type = <<>>
    /\ Len(matching_calls) = 1

\* C13 as stated: a record without the incident attribute is dropped by the
\* parser, so no record with the empty identifier is ever matched, pushed or
\* emailed, and the tracker never holds the empty identifier.
C13_Original ==
    /\ \A i \in 1..Len(matching_calls) :
         matching_calls[i].incident_number # NoIncident
    /\ cur # NoIncident
    /\ NoIncident \notin (posted_ok \cup failed_push)
    /\ NoIncident \notin notified_incidents

\* C13 witness of the divergence: a record without the incident attribute
\* was matched, pushed and emailed, and the tracker holds the empty identifier
C13_EmptyIdNotified ==
    /\ pc = "notify"
    /\ cur = NoIncident
    /\ post_made
    /\ ntfy_success
    /\ resend_called
    /\ NoIncident \in notified_incidents

\* C14 as stated: an interrupt at any point of main makes the process exit
\* with status 0 after logging the tracker's notification count, and a fatal
\* condition makes it exit non-zero after logging the same count.
C14_Original ==
    pc = "exited" =>
        /\ summary = get_notification_count(notified_incidents)
        /\ interrupted => exit_code = 0
        /\ ~interrupted => exit_code # 0

\* C14 witness of the divergence: an interrupt ended the process with status
\* 1 and no summary line
C14_InterruptedStartup ==
    /\ pc = "exited"
    /\ interrupted
    /\ exit_code = 1
    /\ summary = NoSummary
    /\ loop_count = 0

\* the --email-to argument names a recipient: some character of it is neither
\* a comma nor white space
NamesRecipient(email_to) ==
    /\ email_to # None
    /\ \E i \in 1..Len(email_to) : email_to[i] \notin {",", " "}

\* C15: Config.email_enabled is true if and only if the provider credential
\* and the sender address are given and not empty and the recipient argument,
\* split on commas and trimmed, has at least one non-blank piece; and in no
\* iteration of any cycle is resend.Emails.send called while email_enabled is
\* false.
C15_EmailEnablement ==
    /\ pc = "configured" =>
         (email_enabled <=>
            /\ args.resend_api_key \notin {None, <<>>}
            /\ args.email_from \notin {None, <<>>}
            /\ NamesRecipient(args.email_to))
    /\ ~email_enabled => ~resend_called

\* C15 witness: credential and sender are given, the recipient argument holds
\* only a comma and blanks, and the channel is disabled
C15_Witness ==
    /\ pc = "configured"
    /\ args.resend_api_key = <<"k">>
    /\ args.email_from = <<"s">>
    /\ args.email_to = <<" ", ",", " ">>
    /\ ~email_enabled

\* case folding: every letter replaced by its lower-case form
FoldChar(c) ==
    IF \E p \in Letters : p[2] = c
    THEN (CHOOSE p \in Letters : p[2] = c)[1]
    ELSE c

Fold(s) == [i \in 1..Len(s) |-> FoldChar(s[i])]

\* the location of the record contains the term, both case-folded
FoldedMatch(call, t) == Contains(Fold(call.location), Fold(t))

\* C16: search_calls_by_location returns exactly the records whose location
\* contains the term under case folding of both, in their input order; a
\* search for a re-casing of the term returns the same sequence; an empty
\* input and a term no location contains give the empty sequence.
C16_LocationFilter ==
    /\ [](pc = "searched" =>
            /\ matching_calls
                 = SelectSeq(active_calls, LAMBDA c : FoldedMatch(c, filter_term))
            /\ active_calls = <<>> => matching_calls = <<>>
            /\ (\A i \in 1..Len(active_calls) :
                  ~FoldedMatch(active_calls[i], filter_term))
                 => matching_calls = <<>>)
    /\ [][(pc = "searched" /\ Fold(filter_term') = Fold(filter_term))
            => matching_calls' = matching_calls]_vars

\* C16 witness: of two records the second alone matches, its location written
\* in another case than the term
C16_Witness ==
    /\ pc = "searched"
    /\ Len(active_calls) = 2
    /\ filter_term = <<"f", "o">>
    /\ active_calls[1].location = <<"o", "f">>
    /\ active_calls[2].location = <<"x", "F", "o">>
    /\ matching_calls = << active_calls[2] >>

\* every record of the process_and_notify_matches call in progress has had
\* its iteration
AllHandled == pc = "notify" /\ idx > Len(matching_calls)

\* every record of the call in progress was in the tracker when it began
AllKnown ==
    \A i \in 1..Len(matching_calls) :
       matching_calls[i].incident_number \in start_tracker

\* C17: an iteration for an incident id that is in the tracker makes no push
\* POST, has send_notification return False, calls no email and leaves the
\* tracker and the count of new notifications unchanged; so a
\* process_and_notify_matches call whose records were all in the tracker when
\* it began ends with zero new notifications and the tracker, and its count,
\* as they were.
C17_DuplicateShortCircuit ==
    /\ [][(NotifyStep /\ matching_calls[idx].incident_number \in notified_incidents)
            => /\ ~post_made'
               /\ ~ntfy_success'
               /\ ~email_invoked'
               /\ notified_incidents' = notified_incidents
               /\ notifications_sent' = notifications_sent]_vars
    /\ []((AllHandled /\ AllKnown) =>
            /\ notifications_sent = 0
            /\ notified_incidents = start_tracker
            /\ get_notification_count(notified_incidents)
                 = get_notification_count(start_tracker))

\* C17 witness: a later poll returned two records whose pushes succeeded in an
\* earlier poll; both were skipped and the count is still 2
C17_Witness ==
    /\ AllHandled
    /\ AllKnown
    /\ loop_count >= 2
    /\ Len(matching_calls) = 2
    /\ matching_calls[1].incident_number # matching_calls[2].incident_number
    /\ notifications_sent = 0
    /\ ~post_made
    /\ get_notification_count(notified_incidents) = 2

\* parse_active_calls has returned for the text and for the text behind one
\* more byte-order mark
Compared == pc \in {"compared", "searched"}

\* the text itself begins with two byte-order marks
TwoLeadingBOMs ==
    /\ Len(raw_data.lead) >= 2
    /\ raw_data.lead[1] = BOM
    /\ raw_data.lead[2] = BOM

\* C18 as stated: for every feed text, the text behind one more byte-order
\* mark parses to the same record sequence as the text.
C18_Original == Compared => bom_calls = active_calls

\* C18 amended: for every feed text that does not itself begin with two
\* byte-order marks, the text behind one more byte-order mark parses to the
\* same record sequence as the text.  (One mark is removed by line 270 and
\* one more is skipped by the XML parser; a third makes the parse fail, and
\* the result is the empty sequence.)
C18_BOMTolerance ==
    /\ (Compared /\ ~TwoLeadingBOMs) => bom_calls = active_calls
    /\ (Compared /\ raw_data.kind = "xml" /\ raw_data.lead = <<BOM, BOM>>)
         => bom_calls = <<>>

\* C18 witness: a document with records parses to the same non-empty sequence
\* with and without the added byte-order mark
C18_Witness ==
    /\ Compared
    /\ raw_data.lead = <<>>
    /\ Len(active_calls) = 2
    /\ bom_calls = active_calls

\* the incident ids of the records of the cycle in progress
MatchIds == { matching_calls[i].incident_number : i \in 1..Len(matching_calls) }

\* the cycle in progress fetched, and found a record of incident id
Appears(id) == pc = "notify" /\ id \in MatchIds

\* C19: an iteration for an unmarked matching incident attempts the push, in
\* every cycle that fetched; and if an incident appears among the matching
\* records of cycle after cycle without end (so the loop never ends on 5
\* consecutive failures), then, a push for it succeeding at last, it is
\* eventually in the tracker.
C19_ForwardProgress ==
    /\ [][(NotifyStep /\ matching_calls[idx].incident_number \notin notified_incidents)
            => (post_made' /\ cur' = matching_calls[idx].incident_number)]_vars
    /\ \A id \in Ids : ([]<>Appears(id)) => <>(id \in notified_incidents)

\* C19 witness: an incident whose push failed in earlier cycles, with failed
\* fetches in between, is marked by a later cycle
C19_Witness ==
    /\ pc = "notify"
    /\ loop_count = MaxCounted
    /\ last_error = "network"
    /\ backoff_time = 60
    /\ cur \in failed_push
    /\ post_made
    /\ ntfy_success
    /\ cur \in notified_incidents
    /\ cur \notin start_tracker

\* C20: within a cycle the iterations take the filtered records in their
\* feed order, one record each, starting with the first; the email of an
\* iteration, if any, belongs to the record whose push that iteration made,
\* so it precedes the push of the next record; the loop leaves the
\* notifications for the poll-interval sleep only when every filtered record
\* has had its iteration; and a fetch starts only with no cycle in progress.
C20_Ordering ==
    /\ [][(pc = "fetch" /\ pc' = "notify") => (idx' = 1 /\ matching_calls' # <<>>)]_vars
    /\ [][NotifyStep =>
            /\ idx \in 1..Len(matching_calls)
            /\ cur' = matching_calls[idx].incident_number
            /\ matching_calls' = matching_calls
            /\ loop_count' = loop_count
            /\ email_invoked' => (post_made' /\ ntfy_success')
            /\ pc' = "notify"]_vars
    /\ [][(pc = "notify" /\ pc' \notin {"notify", "exited"})
            => (pc' = "sleep" /\ idx = Len(matching_calls) + 1)]_vars
    /\ [][loop_count' # loop_count
            => (pc = "fetch" /\ matching_calls = <<>> /\ idx = 0
                /\ loop_count' = loop_count + 1)]_vars
    /\ [](pc \in {"fetch", "sleep", "backoff"} => (matching_calls = <<>> /\ idx = 0))

\* C20 witness: the second cycle has taken its two records in feed order, the
\* first pushed and emailed before the second was pushed
C20_Witness ==
    /\ pc = "notify"
    /\ loop_count = 2
    /\ Len(matching_calls) = 2
    /\ idx = 3
    /\ matching_calls[1].incident_number = NoIncident
    /\ matching_calls[2].incident_number = "A"
    /\ start_tracker = {}
    /\ notified_incidents = {NoIncident, "A"}
    /\ cur = "A"
    /\ email_invoked
    /\ resend_called

\* C21 as stated: a completed cycle is followed by one sleep of the
\* configured poll interval and nothing else before the next feed GET; a
\* failed cycle below the threshold is followed by one backoff sleep and
\* nothing else, min(300, 30 * 2^(counter-1)) long after a network failure and
\* 60 after any other; a poll-interval sleep and a backoff sleep never both
\* stand between two feed GETs.
C21_Original ==
    /\ [][(pc = "sleep" /\ pc' # "exited")
            => (pc' = "fetch" /\ waits' = << <<"poll", poll_interval>> >>)]_vars
    /\ [][(pc = "backoff" /\ pc' # "exited")
            => /\ pc' = "fetch"
               /\ waits' = << <<"backoff",
                               IF last_error = "network"
                               THEN Min(300, 30 * 2 ^ (consecutive_errors - 1))
                               ELSE 60>> >>]_vars
    /\ [](Len(waits) <= 1)
    /\ []((pc = "fetch" /\ loop_count > 0) => Len(waits) = 1)

\* C21 witness of the divergence: a cycle completed (its feed GET succeeded and
\* no failure was counted before it), no poll-interval sleep followed, and the
\* one wait before the next feed GET was the 60 of the generic except clause
C21_BackoffAfterCompletedCycle ==
    /\ pc = "fetch"
    /\ loop_count = 1
    /\ fetch_ok_seen
    /\ poll_interval < 0
    /\ waits = << <<"backoff", 60>> >>
    /\ consecutive_errors = 1
    /\ last_error = "generic"

----------------------------------------------------------------------------
(* C22: the number process_and_notify_matches returns *)

\* C22: the count starts at 0 (line 552), every iteration of the for loop
\* adds 1 to it exactly when its push returned True, which is exactly when
\* the tracker gained one id, so that all along the call, and at its return,
\* the count equals the increase of the tracker's notification count since
\* the call began
C22_CountOfNewSends ==
    /\ []((pc = "notify" /\ idx = 1) => notifications_sent = 0)
    /\ [][NotifyStep =>
            /\ notifications_sent' - notifications_sent
                 = (IF ntfy_success' /\ ~caught' THEN 1 ELSE 0)
            /\ get_notification_count(notified_incidents')
                 - get_notification_count(notified_incidents)
                 = notifications_sent' - notifications_sent
            /\ push_ok'[cur'] - push_ok[cur']
                 = notifications_sent' - notifications_sent]_vars
    /\ [](pc = "notify" =>
            notifications_sent = get_notification_count(notified_incidents)
                                   - get_notification_count(start_tracker))

\* C22 witness: a call on two records of one id returns; the push of the
\* first failed, the push of the second returned True, the count is 1
C22_Witness ==
    /\ AllHandled
    /\ loop_count = 1
    /\ Len(matching_calls) = 2
    /\ matching_calls[1].incident_number = matching_calls[2].incident_number
    /\ cur \in failed_push
    /\ ntfy_success
    /\ notifications_sent = 1
    /\ get_notification_count(notified_incidents) = 1

----------------------------------------------------------------------------
(* C23: one email attempt per incident id *)

\* C23: for every incident id the number of calls of resend.Emails.send in a
\* run is at most the number of pushes that returned True for it, which is at
\* most one; an id whose email attempt failed is in the tracker, and from then
\* on no step adds an email call or a POST for it, whatever the feed holds
C23_EmailAtMostOnce ==
    /\ [](\A id \in Ids : email_calls[id] <= push_ok[id] /\ push_ok[id] <= 1)
    /\ [](email_failed \subseteq notified_incidents)
    /\ [][\A id \in email_failed :
            /\ email_calls'[id] = email_calls[id]
            /\ (NotifyStep /\ cur' = id) => (~post_made' /\ ~email_invoked')]_vars

\* C23 witness: in a later cycle the feed still holds an incident whose email
\* attempt failed; its iteration is skipped as a duplicate, without a POST and
\* without an email, and the id keeps its single email call
C23_Witness ==
    /\ pc = "notify"
    /\ loop_count >= 2
    /\ idx > 1
    /\ cur \in email_failed
    /\ ~post_made
    /\ ~email_invoked
    /\ email_calls[cur] = 1
    /\ push_ok[cur] = 1

----------------------------------------------------------------------------
(* C24: bounded retry growth *)

NetworkWaits == {30, 60, 120, 240}

\* C24: every backoff wait the loop is about to perform or has performed is
\* at most 300; a network backoff is computed only for a counter in 1..4 and
\* is one of 30, 60, 120, 240; and when a network failure follows a network
\* failure with nothing but the backoff wait between them, the new backoff
\* wait is greater than the one just performed
C24_BoundedRetryGrowth ==
    /\ [](pc = "backoff" =>
            /\ backoff_time <= 300
            /\ last_error = "network" =>
                 /\ consecutive_errors \in 1..4
                 /\ backoff_time \in NetworkWaits)
    /\ [](\A i \in 1..Len(waits) :
            waits[i][1] = "backoff" =>
              /\ waits[i][2] <= 300
              /\ last_error = "network" => waits[i][2] \in NetworkWaits)
    /\ [][(/\ pc = "fetch"
           /\ last_error = "network"
           /\ waits = << <<"backoff", backoff_time>> >>
           /\ pc' = "backoff"
           /\ last_error' = "network") => backoff_time' > backoff_time]_vars

\* C24 witness: a streak of four network failures has waited 30, 60, 120 and
\* now 240, the longest network backoff, and the loop is back at the fetch
C24_Witness ==
    /\ pc = "fetch"
    /\ last_error = "network"
    /\ net_streak = 4
    /\ consecutive_errors = 4
    /\ waits = << <<"backoff", 240>> >>

====
